---- MODULE Spec2Model ----
(***************************************************************************)
(* Model of src/metadata/database.rs: Database::from (record validation,   *)
(* descriptor/format building, the three indices), the query operations    *)
(* by_id / by_code / region and the lazily initialised DEFAULT database.   *)
(***************************************************************************)
EXTENDS Integers, Sequences, FiniteSets, TLC

VARIABLES
    raw,        \* SpecMetadata: the loader::Metadata handed to metadata()
    outcome,    \* SpecMetadata: what metadata(raw) returned (None before the call)
    by_id,      \* Database::from local: FnvHashMap<String, Arc<Metadata>>
    by_code,    \* Database::from local: FnvHashMap<u16, Vec<Arc<Metadata>>>
    regions,    \* Database::from local: FnvHashMap<u16, Vec<String>>
    taken,      \* number of records the `for meta in meta` loop has pulled so far
    validated,  \* history: the Arc<Metadata> created so far, in input order
    rejected,   \* history: the raw record whose validation stopped the loop
    result,     \* what Database::from returned (None while it is running)
    once,       \* DEFAULT: state of the lazy_static Once
    cell,       \* DEFAULT: the lazily initialised value (None until published)
    pc,         \* DEFAULT: each thread's position
    observed,   \* DEFAULT: what each thread's latest access to DEFAULT saw
    accesses,   \* DEFAULT: number of accesses each thread has completed
    constructions \* DEFAULT: how many times the initialiser expression was started

vars == <<raw, outcome, by_id, by_code, regions, taken, validated, rejected,
          result, once, cell, pc, observed, accesses, constructions>>

metaVars == <<raw, outcome>>
fromVars == <<by_id, by_code, regions, taken, validated, rejected, result>>
lazyVars == <<once, cell, pc, observed, accesses, constructions>>

----------------------------------------------------------------------------
(* Bounds of the model *)

\* longest input sequence handed to Database::from
MaxLen == 3
\* SpecMetadata: a raw record deviates from the plain one in at most this many places
MaxDefects == 2
\* Spec: the same, for the records of the input sequence of Database::from
LoopDefects == 1
\* how many of the optional descriptor slots the enumerated records populate
MaxSlots == 2
\* DEFAULT: number of threads and accesses per thread
NumThreads == 3
MaxAccesses == 3

----------------------------------------------------------------------------
(* Values *)

\* Option<T>: None, Some(x)
None == <<>>
Some(x) == <<x>>
Unwrap(opt) == opt[1]

\* Result<T>: Ok(value), Err(error); a panic unwinds out of every caller
Ok(v) == [kind |-> "Ok", value |-> v]
Err(e) == [kind |-> "Err", error |-> e]
Panic == [kind |-> "Panic"]

\* error::Metadata::MissingValue { phase, name }
MissingValue(phase, name) == [type |-> "MissingValue", phase |-> phase, name |-> name]
\* the error LazyRegexBuilder::build gives for a pattern that does not parse
RegexError == [type |-> "Regex"]

\* pattern texts: one that parses, one that does not
GoodPattern == "\\d{3}"
BadPattern == "(\\d"
Patterns == {GoodPattern, BadPattern}

Ids == {"AA", "BB"}
Codes == {1, 7}

\* the optional descriptor fields of loader::Metadata, in the order metadata() builds them
Slots == <<"fixed_line", "mobile", "toll_free", "premium_rate", "shared_cost",
           "personal_number", "voip", "pager", "uan", "emergency", "voicemail",
           "short_code", "standard_rate", "carrier", "no_international">>

Min(S) == CHOOSE x \in S : \A y \in S : x <= y

----------------------------------------------------------------------------
(* Database::from: the nested helper functions *)

\* fn switch<T>(value: Option<Result<T>>) -> Result<Option<T>>
switch(value) ==
    IF value = None THEN Ok(None)
    ELSE IF Unwrap(value).kind = "Ok" THEN Ok(Some(Unwrap(value).value))
    ELSE Unwrap(value)

\* fn regex(value: String) -> Result<LazyRegex>
regex(value) ==
    IF value = BadPattern THEN Err(RegexError)
    ELSE Ok([source |-> value, ignore_whitespace |-> TRUE])

\* Option::map(f) followed by switch
MapSwitchRegex(opt) == switch(IF opt = None THEN None ELSE Some(regex(Unwrap(opt))))

\* iter.map(f).collect::<Result<_>>(): the first failure, else all the values
RECURSIVE Collect(_)
Collect(rs) ==
    IF rs = <<>> THEN Ok(<<>>)
    ELSE IF Head(rs).kind # "Ok" THEN Head(rs)
    ELSE LET rest == Collect(Tail(rs))
         IN IF rest.kind # "Ok" THEN rest
            ELSE Ok(<<Head(rs).value>> \o rest.value)

\* the first failure among the field initialisers, evaluated in source order
FirstFailure(steps) ==
    LET bad == {i \in DOMAIN steps : steps[i].kind # "Ok"}
    IN IF bad = {} THEN None ELSE Some(steps[Min(bad)])

\* fn descriptor(desc: loader::Descriptor) -> Result<super::Descriptor>
descriptor(desc) ==
    IF desc.national_number = None
    THEN Panic  \* desc.national_number.as_ref().unwrap()
    ELSE
    LET national_number ==
            IF desc.national_number = None
            THEN Err(MissingValue("descriptor", "national_number"))
            ELSE regex(Unwrap(desc.national_number))
        possible_number == MapSwitchRegex(desc.possible_number)
        failure == FirstFailure(<<national_number, possible_number>>)
    IN IF failure # None THEN Unwrap(failure)
       ELSE Ok([national_number |-> national_number.value,
                possible_number |-> possible_number.value])

\* format() with the template required before the pattern
formatTemplateFirst(f) ==
    LET pattern ==
            IF f.pattern = None THEN Err(MissingValue("format", "pattern"))
            ELSE regex(Unwrap(f.pattern))
        fmt ==
            IF f.format = None THEN Err(MissingValue("format", "format"))
            ELSE Ok(Unwrap(f.format))
        leading_digits ==
            Collect([i \in 1..Len(f.leading_digits) |-> regex(f.leading_digits[i])])
        failure == FirstFailure(<<fmt, pattern, leading_digits>>)
    IN IF failure # None THEN Unwrap(failure)
       ELSE Ok([pattern |-> pattern.value, format |-> fmt.value,
                leading_digits |-> leading_digits.value])

\* fn format(format: loader::Format) -> Result<super::Format>
format(f) ==
    LET pattern ==
            IF f.pattern = None THEN Err(MissingValue("format", "pattern"))
            ELSE regex(Unwrap(f.pattern))
        fmt ==
            IF f.format = None THEN Err(MissingValue("format", "format"))
            ELSE Ok(Unwrap(f.format))
        leading_digits ==
            Collect([i \in 1..Len(f.leading_digits) |-> regex(f.leading_digits[i])])
        failure == FirstFailure(<<pattern, fmt, leading_digits>>)
    IN IF failure # None THEN Unwrap(failure)
       ELSE Ok([pattern |-> pattern.value, format |-> fmt.value,
                leading_digits |-> leading_digits.value])

\* meta.format.into_iter().map(format).collect::<Result<_>>()
CollectFormats(fs) == Collect([i \in 1..Len(fs) |-> format(fs[i])])

\* Option::map(descriptor) followed by switch
MapSwitchDescriptor(opt) ==
    switch(IF opt = None THEN None ELSE Some(descriptor(Unwrap(opt))))

\* metadata() with the name "id" pasted into the countryCode error
metadataPastedName(meta) ==
    LET general ==
            IF meta.general = None THEN Err(MissingValue("metadata", "generalDesc"))
            ELSE descriptor(Unwrap(meta.general))
        optional == [i \in 1..Len(Slots) |-> MapSwitchDescriptor(meta[Slots[i]])]
        id ==
            IF meta.id = None THEN Err(MissingValue("metadata", "id"))
            ELSE Ok(Unwrap(meta.id))
        country_code ==
            IF meta.country_code = None THEN Err(MissingValue("metadata", "id"))
            ELSE Ok(Unwrap(meta.country_code))
        failure == FirstFailure(
            <<general>> \o optional \o
            <<id, country_code,
              MapSwitchRegex(meta.international_prefix),
              MapSwitchRegex(meta.national_prefix_for_parsing),
              CollectFormats(meta.format),
              CollectFormats(meta.international_format),
              MapSwitchRegex(meta.leading_digits)>>)
    IN IF failure # None THEN Unwrap(failure)
       ELSE Ok([id |-> id.value, country_code |-> country_code.value])

\* fn metadata(meta: loader::Metadata) -> Result<super::Metadata>
\* The validated record keeps the two fields the indices read.
metadata(meta) ==
    LET general ==
            IF meta.general = None THEN Err(MissingValue("metadata", "generalDesc"))
            ELSE descriptor(Unwrap(meta.general))
        optional == [i \in 1..Len(Slots) |-> MapSwitchDescriptor(meta[Slots[i]])]
        id ==
            IF meta.id = None THEN Err(MissingValue("metadata", "id"))
            ELSE Ok(Unwrap(meta.id))
        country_code ==
            IF meta.country_code = None THEN Err(MissingValue("metadata", "countryCode"))
            ELSE Ok(Unwrap(meta.country_code))
        failure == FirstFailure(
            <<general>> \o optional \o
            <<id, country_code,
              MapSwitchRegex(meta.international_prefix),
              MapSwitchRegex(meta.national_prefix_for_parsing),
              CollectFormats(meta.format),
              CollectFormats(meta.international_format),
              MapSwitchRegex(meta.leading_digits)>>)
    IN IF failure # None THEN Unwrap(failure)
       ELSE Ok([id |-> id.value, country_code |-> country_code.value])

----------------------------------------------------------------------------
(* The raw records the model enumerates *)

\* a loader::Metadata with every optional field absent and a complete general descriptor
PlainRecord(id, cc) ==
    [s \in {Slots[i] : i \in 1..Len(Slots)} |-> None] @@
    [general |-> Some([national_number |-> Some(GoodPattern), possible_number |-> None]),
     id |-> Some(id), country_code |-> Some(cc),
     international_prefix |-> None, national_prefix_for_parsing |-> None,
     format |-> <<>>, international_format |-> <<>>, leading_digits |-> None]

OptPatterns == {None} \cup {Some(p) : p \in Patterns}

RawDescriptors ==
    [national_number : OptPatterns, possible_number : {None}]
      \cup [national_number : {Some(GoodPattern)},
            possible_number : {Some(GoodPattern), Some(BadPattern)}]

RawFormats ==
    [pattern : OptPatterns, format : {None, Some("$1 $2")}, leading_digits : {<<>>}]
      \cup [pattern : {Some(GoodPattern)}, format : {Some("$1 $2")},
            leading_digits : {<<GoodPattern>>, <<BadPattern>>}]

\* one deviation from a record: a field overwritten, or an entry pushed on a sequence
Deviations ==
    [op : {"set"}, field : {"general"},
     value : {None} \cup {Some(d) : d \in RawDescriptors}]
    \cup [op : {"set"}, field : {Slots[i] : i \in 1..MaxSlots},
          value : {Some(d) : d \in RawDescriptors}]
    \cup [op : {"set"}, field : {"id", "country_code"}, value : {None}]
    \cup [op : {"set"},
          field : {"international_prefix", "national_prefix_for_parsing", "leading_digits"},
          value : {Some(p) : p \in Patterns}]
    \cup [op : {"push"}, field : {"format", "international_format"}, value : RawFormats]

Deviate(r, d) ==
    IF d.op = "set" THEN [r EXCEPT ![d.field] = d.value]
    ELSE [r EXCEPT ![d.field] = Append(@, d.value)]

RECURSIVE RawRecords(_)
RawRecords(n) ==
    IF n = 0 THEN {PlainRecord(id, cc) : id \in Ids, cc \in Codes}
    ELSE LET fewer == RawRecords(n - 1)
         IN fewer \cup {Deviate(r, d) : r \in fewer, d \in Deviations}

\* the records metadata() is tried on, and the records an input sequence draws from
MetadataRecords == RawRecords(MaxDefects)
LoopRecords == RawRecords(LoopDefects)

----------------------------------------------------------------------------
(* SpecMetadata: metadata() applied to one raw record *)

InitFrom ==
    /\ by_id = << >>
    /\ by_code = << >>
    /\ regions = << >>
    /\ taken = 0
    /\ validated = <<>>
    /\ rejected = None
    /\ result = None

InitLazy ==
    /\ once = "INCOMPLETE"
    /\ cell = None
    /\ pc = [t \in 1..NumThreads |-> "idle"]
    /\ observed = [t \in 1..NumThreads |-> None]
    /\ accesses = [t \in 1..NumThreads |-> 0]
    /\ constructions = 0

InitMetadata ==
    /\ raw \in {Some(r) : r \in MetadataRecords}
    /\ outcome = None
    /\ InitFrom
    /\ InitLazy

Validate ==
    /\ outcome = None
    /\ outcome' = Some(metadata(Unwrap(raw)))
    /\ UNCHANGED <<raw, fromVars, lazyVars>>

NextMetadata == Validate

SpecMetadata == InitMetadata /\ [][NextMetadata]_vars

----------------------------------------------------------------------------
(* Database::from: the loop that builds the three indices *)

EmptyMap == << >>

\* Arc::new(metadata(meta)?): a fresh allocation holding the validated record
ArcNew(ptr, m) == [ptr |-> ptr, id |-> m.id, country_code |-> m.country_code]

\* insert that keeps the entry already there (first write wins)
MapInsertKeep(map, key, value) ==
    [k \in DOMAIN map \cup {key} |-> IF k \in DOMAIN map THEN map[k] ELSE value]

\* by_id.insert(meta.id.clone(), meta.clone())
MapInsert(map, key, value) ==
    [k \in DOMAIN map \cup {key} |-> IF k = key THEN value ELSE map[k]]

\* push that puts the new element at the front of the group
MapPushFront(map, key, value) ==
    [k \in DOMAIN map \cup {key} |->
        IF k = key
        THEN (IF key \in DOMAIN map THEN <<value>> \o map[key] ELSE <<value>>)
        ELSE map[k]]

\* map.entry(key).or_insert_with(Vec::new).push(value)
MapPush(map, key, value) ==
    [k \in DOMAIN map \cup {key} |->
        IF k = key
        THEN (IF key \in DOMAIN map THEN Append(map[key], value) ELSE <<value>>)
        ELSE map[k]]

\* the loop body with regions keyed by a record's id only on first sight of its code
LoopBodyRegionsOnce(db, arc) ==
    [by_id |-> MapInsert(db.by_id, arc.id, arc),
     by_code |-> MapPush(db.by_code, arc.country_code, arc),
     regions |-> IF arc.country_code \in DOMAIN db.regions THEN db.regions
                 ELSE MapPush(db.regions, arc.country_code, arc.id)]

\* the loop body with by_code given its own copy of the record, not the shared Arc
LoopBodyCopies(db, arc) ==
    [by_id |-> MapInsert(db.by_id, arc.id, arc),
     by_code |-> MapPush(db.by_code, arc.country_code, [arc EXCEPT !.ptr = 0 - arc.ptr]),
     regions |-> MapPush(db.regions, arc.country_code, arc.id)]

\* the body of `for meta in meta`, on the locals held in db
LoopBody(db, arc) ==
    [by_id |-> MapInsert(db.by_id, arc.id, arc),
     by_code |-> MapPush(db.by_code, arc.country_code, arc),
     regions |-> MapPush(db.regions, arc.country_code, arc.id)]

Locals == [by_id |-> by_id, by_code |-> by_code, regions |-> regions]

\* one iteration of the loop on the next record of the input
Step(rec) ==
    /\ result = None
    /\ rejected = None
    /\ taken' = taken + 1
    /\ LET r == metadata(rec)
       IN IF r.kind = "Ok"
          THEN LET arc == ArcNew(taken + 1, r.value)
                   db == LoopBody(Locals, arc)
               IN /\ by_id' = db.by_id
                  /\ by_code' = db.by_code
                  /\ regions' = db.regions
                  /\ validated' = Append(validated, arc)
                  /\ UNCHANGED <<rejected, result>>
          ELSE \* metadata(meta)? returns early (or the panic unwinds): the locals are dropped
               /\ by_id' = EmptyMap
               /\ by_code' = EmptyMap
               /\ regions' = EmptyMap
               /\ rejected' = Some(rec)
               /\ result' = Some(r)
               /\ UNCHANGED validated

\* the input is exhausted: Ok(Database { by_id, by_code, regions })
Return ==
    /\ result = None
    /\ rejected = None
    /\ result' = Some(Ok(Locals))
    /\ by_id' = EmptyMap
    /\ by_code' = EmptyMap
    /\ regions' = EmptyMap
    /\ UNCHANGED <<taken, validated, rejected>>

\* pub fn by_id(&self, key) -> Option<&Metadata>
ById(db, key) == IF key \in DOMAIN db.by_id THEN Some(db.by_id[key]) ELSE None

\* pub fn by_code(&self, key) -> Option<Vec<&Metadata>>
ByCode(db, key) == IF key \in DOMAIN db.by_code THEN Some(db.by_code[key]) ELSE None

\* pub fn region(&self, code) -> Option<Vec<&str>>
Region(db, code) == IF code \in DOMAIN db.regions THEN Some(db.regions[code]) ELSE None

Init ==
    /\ raw = None
    /\ outcome = None
    /\ InitFrom
    /\ InitLazy

FromNext ==
    \/ /\ taken < MaxLen
       /\ \E rec \in LoopRecords : Step(rec)
       /\ UNCHANGED <<metaVars, lazyVars>>
    \/ /\ Return
       /\ UNCHANGED <<metaVars, lazyVars>>

Next == FromNext

Spec == Init /\ [][Next]_vars

----------------------------------------------------------------------------
(* DEFAULT: lazy_static! { pub static ref DEFAULT: Database = ... } *)

\* bincode::deserialize(DATABASE).unwrap(): the bundled, well-formed dataset
DATABASE ==
    <<Deviate(PlainRecord("US", 1),
              [op |-> "set", field |-> "mobile",
               value |-> Some([national_number |-> Some(GoodPattern),
                               possible_number |-> None])]),
      PlainRecord("CA", 1),
      Deviate(PlainRecord("RU", 7),
              [op |-> "push", field |-> "format",
               value |-> [pattern |-> Some(GoodPattern), format |-> Some("$1 $2"),
                          leading_digits |-> <<>>]])>>

Threads == 1..NumThreads

\* DerefInit with the initialiser started whenever the value is not there yet
DerefInitUnsynchronised(t) ==
    /\ pc[t] = "idle"
    /\ accesses[t] < MaxAccesses
    /\ once # "COMPLETE"
    /\ once' = "RUNNING"
    /\ pc' = [pc EXCEPT ![t] = "init"]
    /\ constructions' = constructions + 1
    /\ UNCHANGED <<cell, observed, accesses, metaVars, fromVars>>

\* a first access that finds the Once untouched claims it and runs the initialiser
DerefInit(t) ==
    /\ pc[t] = "idle"
    /\ accesses[t] < MaxAccesses
    /\ once = "INCOMPLETE"
    /\ once' = "RUNNING"
    /\ pc' = [pc EXCEPT ![t] = "init"]
    /\ constructions' = constructions + 1
    /\ UNCHANGED <<cell, observed, accesses, metaVars, fromVars>>

\* an access while another thread runs the initialiser blocks on the Once
DerefWait(t) ==
    /\ pc[t] = "idle"
    /\ accesses[t] < MaxAccesses
    /\ once = "RUNNING"
    /\ pc' = [pc EXCEPT ![t] = "blocked"]
    /\ UNCHANGED <<once, cell, observed, accesses, constructions, metaVars, fromVars>>

\* an access after initialisation reads the value
DerefReady(t) ==
    /\ pc[t] \in {"idle", "blocked"}
    /\ accesses[t] < MaxAccesses
    /\ once = "COMPLETE"
    /\ observed' = [observed EXCEPT ![t] = cell]
    /\ accesses' = [accesses EXCEPT ![t] = @ + 1]
    /\ pc' = [pc EXCEPT ![t] = "idle"]
    /\ UNCHANGED <<once, cell, constructions, metaVars, fromVars>>

\* the initialiser: Database::from over the bundled dataset, one record per step
InitStep(t) ==
    /\ pc[t] = "init"
    /\ taken < Len(DATABASE)
    /\ Step(DATABASE[taken + 1])
    /\ UNCHANGED <<metaVars, lazyVars>>

InitReturn(t) ==
    /\ pc[t] = "init"
    /\ taken = Len(DATABASE)
    /\ Return
    /\ UNCHANGED <<metaVars, lazyVars>>

\* .unwrap() of the result, the value stored, the Once completed; the
\* initialising access then reads the value
InitPublish(t) ==
    /\ pc[t] = "init"
    /\ result # None
    /\ Unwrap(result).kind = "Ok"
    /\ cell' = Some(Unwrap(result).value)
    /\ once' = "COMPLETE"
    /\ observed' = [observed EXCEPT ![t] = cell']
    /\ accesses' = [accesses EXCEPT ![t] = @ + 1]
    /\ pc' = [pc EXCEPT ![t] = "idle"]
    /\ UNCHANGED <<constructions, metaVars, fromVars>>

DefaultNext ==
    \E t \in Threads :
        \/ DerefInit(t)
        \/ DerefWait(t)
        \/ DerefReady(t)
        \/ InitStep(t)
        \/ InitReturn(t)
        \/ InitPublish(t)

SpecDefault == Init /\ [][DefaultNext]_vars

\* Database::from applied to a whole input sequence
RECURSIVE FromAll(_, _, _)
FromAll(input, n, db) ==
    IF n = Len(input) THEN Ok(db)
    ELSE LET r == metadata(input[n + 1])
         IN IF r.kind # "Ok" THEN r
            ELSE FromAll(input, n + 1, LoopBody(db, ArcNew(n + 1, r.value)))

----------------------------------------------------------------------------
(* Vocabulary of the claims about metadata() *)

Returned == outcome # None
Outcome == Unwrap(outcome)
Rec == Unwrap(raw)

SlotNames == {Slots[i] : i \in 1..Len(Slots)}

\* the descriptors a raw record carries: the general one and the present optional ones
DescriptorsOf(r) ==
    {Unwrap(r[f]) : f \in {g \in SlotNames \cup {"general"} : r[g] # None}}

\* the Format entries of a raw record, format first, then international_format
FormatsOf(r) == r.format \o r.international_format

Compiles(opt) == opt = None \/ Unwrap(opt) # BadPattern

DescriptorComplete(d) == d.national_number # None
DescriptorCompiles(d) == Compiles(d.national_number) /\ Compiles(d.possible_number)
FormatComplete(f) == f.pattern # None /\ f.format # None
FormatCompiles(f) ==
    Compiles(f.pattern) /\ \A i \in 1..Len(f.leading_digits) : f.leading_digits[i] # BadPattern

DescriptorsComplete(r) == \A d \in DescriptorsOf(r) : DescriptorComplete(d)
DescriptorsCompile(r) == \A d \in DescriptorsOf(r) : DescriptorCompiles(d)
FormatsComplete(r) == \A i \in 1..Len(FormatsOf(r)) : FormatComplete(FormatsOf(r)[i])
FormatsCompile(r) == \A i \in 1..Len(FormatsOf(r)) : FormatCompiles(FormatsOf(r)[i])

AbsentTopLevel(r) ==
    {n \in {"generalDesc", "id", "countryCode"} :
        \/ n = "generalDesc" /\ r.general = None
        \/ n = "id" /\ r.id = None
        \/ n = "countryCode" /\ r.country_code = None}

----------------------------------------------------------------------------
(* C1 *)

\* C1 (as claimed): when the general descriptor is present and some descriptor of
\* the record (general or a present optional slot) has no national_number pattern,
\* while every pattern given compiles, metadata() returns
\* MissingValue{phase: "descriptor", name: "national_number"} and does not panic.
C1_MissingNationalNumberIsError ==
    (/\ Returned
     /\ Rec.general # None
     /\ ~DescriptorsComplete(Rec)
     /\ DescriptorsCompile(Rec))
    => Outcome = Err(MissingValue("descriptor", "national_number"))

----------------------------------------------------------------------------
(* C2 *)

\* C2 (as claimed): exactly one of generalDesc, id, countryCode is absent and every
\* present descriptor and format has its mandatory fields: metadata() returns
\* MissingValue{phase: "metadata"} naming exactly the absent field.
C2_Original ==
    (/\ Returned
     /\ Cardinality(AbsentTopLevel(Rec)) = 1
     /\ DescriptorsComplete(Rec)
     /\ FormatsComplete(Rec))
    => \E n \in AbsentTopLevel(Rec) : Outcome = Err(MissingValue("metadata", n))

\* C2 (amended): the same, for records whose descriptor patterns also compile:
\* a descriptor pattern that does not parse is reported before a missing id or
\* countryCode.
C2_MissingTopLevelField ==
    (/\ Returned
     /\ Cardinality(AbsentTopLevel(Rec)) = 1
     /\ DescriptorsComplete(Rec)
     /\ DescriptorsCompile(Rec)
     /\ FormatsComplete(Rec))
    => \E n \in AbsentTopLevel(Rec) : Outcome = Err(MissingValue("metadata", n))

\* a record with an optional descriptor, lacking only its countryCode, was refused
\* with that name
C2_Witness ==
    /\ Returned
    /\ Rec.country_code = None
    /\ Rec.id # None
    /\ Rec.mobile # None
    /\ Outcome = Err(MissingValue("metadata", "countryCode"))

----------------------------------------------------------------------------
(* C3 *)

IncompleteFormats(r) == {i \in 1..Len(FormatsOf(r)) : ~FormatComplete(FormatsOf(r)[i])}

\* the field names missing in some Format entry of the record
MissingFormatNames(r) ==
    {n \in {"pattern", "format"} :
        \E i \in 1..Len(FormatsOf(r)) :
            \/ n = "pattern" /\ FormatsOf(r)[i].pattern = None
            \/ n = "format" /\ FormatsOf(r)[i].format = None}

\* C3 (as claimed): a record whose format or international_format holds an entry
\* without pattern or without format template is refused with phase "format" and
\* the name of such a missing field.
C3_Original ==
    (Returned /\ IncompleteFormats(Rec) # {})
    => \E n \in MissingFormatNames(Rec) : Outcome = Err(MissingValue("format", n))

\* everything metadata() builds before the formats is present and compiles
ValidBeforeFormats(r) ==
    /\ AbsentTopLevel(r) = {}
    /\ DescriptorsComplete(r)
    /\ DescriptorsCompile(r)
    /\ Compiles(r.international_prefix)
    /\ Compiles(r.national_prefix_for_parsing)

\* C3 (amended): for a record that is valid up to its formats and whose given
\* patterns all compile, an incomplete Format entry is refused with phase "format"
\* and the name decided by the first incomplete entry (format before
\* international_format): "pattern" if it lacks the pattern, else "format"; and
\* when every entry is complete (an empty leading_digits included) the record is
\* accepted.
C3_MissingFormatField ==
    (/\ Returned
     /\ ValidBeforeFormats(Rec)
     /\ FormatsCompile(Rec)
     /\ Compiles(Rec.leading_digits))
    => IF IncompleteFormats(Rec) = {}
       THEN Outcome.kind = "Ok"
       ELSE LET first == FormatsOf(Rec)[Min(IncompleteFormats(Rec))]
            IN Outcome = Err(MissingValue("format",
                   IF first.pattern = None THEN "pattern" ELSE "format"))

\* an international_format entry without template, after a complete format entry
\* with empty leading_digits, was refused with name "format"
C3_Witness ==
    /\ Returned
    /\ Len(Rec.format) = 1
    /\ FormatComplete(Rec.format[1])
    /\ Rec.format[1].leading_digits = <<>>
    /\ Len(Rec.international_format) = 1
    /\ Rec.international_format[1].pattern # None
    /\ Rec.international_format[1].format = None
    /\ Outcome = Err(MissingValue("format", "format"))

----------------------------------------------------------------------------
(* C10 *)

\* the first missing mandatory field in the order the claim gives
RECURSIVE FirstIncompleteFormat(_)
FirstIncompleteFormat(fs) ==
    IF fs = <<>> THEN None
    ELSE IF Head(fs).pattern = None THEN Some(MissingValue("format", "pattern"))
    ELSE IF Head(fs).format = None THEN Some(MissingValue("format", "format"))
    ELSE FirstIncompleteFormat(Tail(fs))

FirstMissing(r) ==
    IF r.general = None THEN Some(MissingValue("metadata", "generalDesc"))
    ELSE IF ~DescriptorsComplete(r) THEN Some(MissingValue("descriptor", "national_number"))
    ELSE IF r.id = None THEN Some(MissingValue("metadata", "id"))
    ELSE IF r.country_code = None THEN Some(MissingValue("metadata", "countryCode"))
    ELSE FirstIncompleteFormat(FormatsOf(r))

AllCompile(r) ==
    /\ DescriptorsCompile(r)
    /\ FormatsCompile(r)
    /\ Compiles(r.international_prefix)
    /\ Compiles(r.national_prefix_for_parsing)
    /\ Compiles(r.leading_digits)

\* C10 (as claimed): a record that lacks mandatory fields (its given patterns all
\* compiling) is refused with the single error of the first missing field in the
\* order generalDesc, descriptors' national_number, id, countryCode, then pattern
\* and format of each Format entry in sequence order.
C10_FailFastOrder ==
    (Returned /\ AllCompile(Rec) /\ FirstMissing(Rec) # None)
    => Outcome = Err(Unwrap(FirstMissing(Rec)))

----------------------------------------------------------------------------
(* C9 *)

DefaultDatabase == FromAll(DATABASE, 0, [by_id |-> EmptyMap, by_code |-> EmptyMap, regions |-> EmptyMap])

\* C9: the initialiser of DEFAULT is started at most once, and every access that
\* has completed, by any thread, saw the one fully built Database (never an
\* empty cell, never a partly built index).
C9_DefaultBuiltOnce ==
    /\ constructions <= 1
    /\ DefaultDatabase.kind = "Ok"
    /\ \A t \in Threads : accesses[t] > 0 => observed[t] = Some(DefaultDatabase.value)
    /\ cell # None => cell = Some(DefaultDatabase.value)

\* the initialising thread has read the value while a thread that raced with it is
\* still blocked on the Once, and a third has read the value as well
C9_Witness ==
    \E t1, t2, t3 \in Threads :
        /\ t1 # t2 /\ t2 # t3 /\ t1 # t3
        /\ accesses[t1] = MaxAccesses
        /\ pc[t2] = "blocked"
        /\ accesses[t3] >= 1
        /\ observed[t3] = observed[t1]
        /\ constructions = 1

----------------------------------------------------------------------------
(* Vocabulary of the claims about a built Database *)

Built == result # None /\ Unwrap(result).kind = "Ok"
Db == Unwrap(result).value

\* the keys the queries are tried with: every code and id of the inputs, and one
\* of each that no input carries
QueryCodes == Codes \cup {0}
QueryIds == Ids \cup {"ZZ"}

\* the validated input records with a given country_code, in input order
RECURSIVE WithCode(_, _)
WithCode(arcs, c) ==
    IF arcs = <<>> THEN <<>>
    ELSE (IF Head(arcs).country_code = c THEN <<Head(arcs)>> ELSE <<>>)
         \o WithCode(Tail(arcs), c)

IdsOf(arcs) == [i \in 1..Len(arcs) |-> arcs[i].id]

\* the position of the last validated input record with a given id
LastWithId(id) == CHOOSE i \in 1..Len(validated) :
    /\ validated[i].id = id
    /\ \A j \in (i + 1)..Len(validated) : validated[j].id # id

----------------------------------------------------------------------------
(* C4 *)

\* C4 (as claimed): once validation of a record has failed, Database::from has
\* returned an error value and no Database, whatever was inserted before; and a
\* Database is returned only when every record taken from the input validated.
C4_AllOrNothing ==
    /\ rejected # None => (result # None /\ Unwrap(result).kind = "Err")
    /\ Built => (rejected = None /\ Len(validated) = taken)

----------------------------------------------------------------------------
(* C5 *)

\* C5: in a built Database by_code and regions have the same keys, region(c) is
\* by_code(c) mapped to the ids, position by position, and every Metadata of by_id
\* has a record with its id in by_code(its country_code) at a position where
\* region(its country_code) holds that id.
C5_IndexConsistency ==
    Built =>
        /\ DOMAIN Db.by_code = DOMAIN Db.regions
        /\ \A c \in QueryCodes :
              /\ (ByCode(Db, c) = None) <=> (Region(Db, c) = None)
              /\ ByCode(Db, c) # None =>
                    Unwrap(Region(Db, c)) = IdsOf(Unwrap(ByCode(Db, c)))
        /\ \A id \in DOMAIN Db.by_id :
              LET m == Unwrap(ById(Db, id))
              IN /\ ByCode(Db, m.country_code) # None
                 /\ \E i \in 1..Len(Unwrap(ByCode(Db, m.country_code))) :
                       /\ Unwrap(ByCode(Db, m.country_code))[i].id = m.id
                       /\ Unwrap(Region(Db, m.country_code))[i] = m.id

\* a built Database with a code shared by records of different ids
C5_Witness ==
    /\ Built
    /\ \E c \in Codes :
          /\ Region(Db, c) # None
          /\ Len(Unwrap(Region(Db, c))) >= 2
          /\ Unwrap(Region(Db, c))[1] # Unwrap(Region(Db, c))[2]

----------------------------------------------------------------------------
(* C6 *)

\* C6: in a built Database by_code(c) is the validated input records with
\* country_code c in input order, region(c) their ids in that order, and both are
\* None (never an empty sequence) exactly when no input record has that code.
C6_OrderPreservation ==
    Built =>
        \A c \in QueryCodes :
            LET group == WithCode(validated, c)
            IN /\ ByCode(Db, c) = (IF group = <<>> THEN None ELSE Some(group))
               /\ Region(Db, c) = (IF group = <<>> THEN None ELSE Some(IdsOf(group)))

\* three input records A, B, C sharing one code came back in that order, and
\* another code is unknown
C6_Witness ==
    /\ Built
    /\ Len(validated) = 3
    /\ \E c \in Codes :
          /\ ByCode(Db, c) = Some(validated)
          /\ Unwrap(Region(Db, c))[1] # Unwrap(Region(Db, c))[3]
    /\ \E c \in Codes : ByCode(Db, c) = None

----------------------------------------------------------------------------
(* C7 *)

\* C7: in a built Database the keys of by_id are the distinct ids of the input,
\* by_id(id) is the last input record with that id, and every input record, a
\* duplicate included, has its own entry in by_code and region.
C7_Uniqueness ==
    Built =>
        /\ DOMAIN Db.by_id = {validated[i].id : i \in 1..Len(validated)}
        /\ \A id \in QueryIds :
              ById(Db, id) =
                  (IF \E i \in 1..Len(validated) : validated[i].id = id
                   THEN Some(validated[LastWithId(id)]) ELSE None)
        /\ \A i \in 1..Len(validated) :
              LET c == validated[i].country_code
              IN /\ \E j \in 1..Len(Db.by_code[c]) : Db.by_code[c][j] = validated[i]
                 /\ Len(Db.by_code[c]) = Len(WithCode(validated, c))
                 /\ Len(Db.regions[c]) = Len(WithCode(validated, c))

\* the input held the same id twice under one code: by_id has the later record,
\* by_code has both
C7_Witness ==
    /\ Built
    /\ Len(validated) >= 2
    /\ validated[1].id = validated[2].id
    /\ validated[1].country_code = validated[2].country_code
    /\ ById(Db, validated[1].id) = Some(validated[2])
    /\ Len(Unwrap(ByCode(Db, validated[1].country_code))) >= 2

----------------------------------------------------------------------------
(* C8 *)

\* every Metadata by_id returns is, as the same instance, in by_code(its code)
ByIdWithinByCode ==
    \A id \in DOMAIN Db.by_id :
        LET m == Unwrap(ById(Db, id))
        IN /\ ByCode(Db, m.country_code) # None
           /\ \E i \in 1..Len(Unwrap(ByCode(Db, m.country_code))) :
                 Unwrap(ByCode(Db, m.country_code))[i] = m

\* C8 (as claimed): in a built Database, repeated ids included, every Metadata
\* reachable through by_code is the instance by_id returns for its id, and every
\* Metadata of by_id is in by_code(its country_code).
C8_Original ==
    Built =>
        /\ \A c \in DOMAIN Db.by_code : \A i \in 1..Len(Db.by_code[c]) :
              ById(Db, Db.by_code[c][i].id) = Some(Db.by_code[c][i])
        /\ ByIdWithinByCode

\* C8 (amended): every Metadata of by_id is, as the same instance, in
\* by_code(its country_code); a Metadata reachable through by_code is the instance
\* by_id returns for its id exactly when no later input record has the same id,
\* so the two indices hold the same instances when the input ids are distinct.
C8_SharedInstance ==
    Built =>
        /\ ByIdWithinByCode
        /\ \A c \in DOMAIN Db.by_code : \A i \in 1..Len(Db.by_code[c]) :
              LET m == Db.by_code[c][i]
              IN (ById(Db, m.id) = Some(m))
                   <=> ~(\E j \in 1..Len(validated) :
                            validated[j].id = m.id /\ validated[j].ptr > m.ptr)

\* a built Database from three records of distinct instances, two of them sharing
\* an id: the earlier one is in by_code only
C8_Witness ==
    /\ Built
    /\ Len(validated) = 3
    /\ validated[1].id = validated[3].id
    /\ validated[2].id # validated[1].id
    /\ ById(Db, validated[2].id) = Some(validated[2])
    /\ ById(Db, validated[1].id) = Some(validated[3])
    /\ \E i \in 1..Len(Db.by_code[validated[1].country_code]) :
          Db.by_code[validated[1].country_code][i] = validated[1]

====
